---------------------------- MODULE Spec2Model ----------------------------
(***************************************************************************)
(* vexel: the vector types Vector2<T>, Vector3<T>, Vector4<T> and their    *)
(* operations (src/src/vectors/vector2.rs, vector3.rs, vector4.rs).        *)
(*                                                                         *)
(* The component type T is instantiated at f64 and at a signed integer.    *)
(* f64 is modelled as a binary floating-point format in the IEEE-754       *)
(* style: signed zeros, gradual underflow, round to nearest (ties to       *)
(* even), overflow to infinity, one NaN.  Its widths are scaled down       *)
(* (MantBits bits of precision instead of 53) so that the values can be    *)
(* enumerated; a finite value is an integer number n of units of           *)
(* 2^-FracBits carrying a sign.  The signed integer type is a two's        *)
(* complement integer of IntBits bits (a scaled i8), which converts to the   *)
(* float format exactly, as i8 converts exactly to f64.                    *)
(***************************************************************************)
EXTENDS Integers, Sequences, FiniteSets, TLC

VARIABLES ty, dim, a, b, op, arg, res

vars == <<ty, dim, a, b, op, arg, res>>

---------------------------------------------------------------------------
(* Widths of the scaled number formats and bounds of the inputs.           *)

MantBits == 8      \* precision of the float format, in bits
FracBits == 3      \* the smallest positive float is 2^-FracBits
MaxShift == 5      \* the largest float is (2^MantBits - 1) * 2^(MaxShift - FracBits)
IntBits == 4       \* width of the signed integer component type
MaxInt == 1        \* inputs hold the integers -MaxInt..MaxInt
MaxIdx == 4        \* swizzle indices are drawn from 0..MaxIdx

Pow2(k) == 2 ^ k

One == Pow2(FracBits)
MaxFin == (Pow2(MantBits) - 1) * Pow2(MaxShift)
OverThresh == MaxFin + Pow2(MaxShift - 1)

---------------------------------------------------------------------------
(* f64 values and arithmetic.                                              *)

Nan == [k |-> "nan", s |-> 0, n |-> 0]
Inf(s) == [k |-> "inf", s |-> s, n |-> 0]
Fin(s, n) == [k |-> "fin", s |-> s, n |-> n]

IsNan(x) == x.k = "nan"
IsInf(x) == x.k = "inf"
IsFin(x) == x.k = "fin"
IsZero(x) == x.k = "fin" /\ x.n = 0

Xor(s1, s2) == IF s1 = s2 THEN 0 ELSE 1

RECURSIVE ShiftOf(_, _, _)
\* the least j >= i with num / den < 2^(MantBits + j)
ShiftOf(num, den, i) ==
    IF num < Pow2(MantBits + i) * den THEN i ELSE ShiftOf(num, den, i + 1)

\* the float nearest to the exact value (-1)^s * num / den units, ties to even
RoundQ(s, num, den) ==
    IF num >= den * OverThresh THEN Inf(s)
    ELSE LET j == ShiftOf(num, den, 0)
             d == den * Pow2(j)
             q == num \div d
             r == num % d
             m == IF 2 * r > d \/ (2 * r = d /\ q % 2 = 1) THEN q + 1 ELSE q
         IN  Fin(s, m * Pow2(j))

FNeg(x) == IF IsNan(x) THEN x ELSE [x EXCEPT !.s = 1 - x.s]

SInt(x) == IF x.s = 1 THEN 0 - x.n ELSE x.n

FAdd(x, y) ==
    IF IsNan(x) \/ IsNan(y) THEN Nan
    ELSE IF IsInf(x) /\ IsInf(y) THEN (IF x.s = y.s THEN x ELSE Nan)
    ELSE IF IsInf(x) THEN x
    ELSE IF IsInf(y) THEN y
    ELSE LET v == SInt(x) + SInt(y)
         IN  IF v = 0 THEN Fin(IF x.s = 1 /\ y.s = 1 THEN 1 ELSE 0, 0)
             ELSE IF v < 0 THEN RoundQ(1, 0 - v, 1)
             ELSE RoundQ(0, v, 1)

FSub(x, y) == FAdd(x, FNeg(y))

FMul(x, y) ==
    IF IsNan(x) \/ IsNan(y) THEN Nan
    ELSE IF IsInf(x) \/ IsInf(y)
         THEN (IF IsZero(x) \/ IsZero(y) THEN Nan ELSE Inf(Xor(x.s, y.s)))
    ELSE RoundQ(Xor(x.s, y.s), x.n * y.n, One)

FDiv(x, y) ==
    IF IsNan(x) \/ IsNan(y) THEN Nan
    ELSE IF IsInf(x) THEN (IF IsInf(y) THEN Nan ELSE Inf(Xor(x.s, y.s)))
    ELSE IF IsInf(y) THEN Fin(Xor(x.s, y.s), 0)
    ELSE IF y.n = 0 THEN (IF x.n = 0 THEN Nan ELSE Inf(Xor(x.s, y.s)))
    ELSE RoundQ(Xor(x.s, y.s), x.n * One, y.n)

\* f64::powi(2): one multiplication
FSquare(x) == FMul(x, x)

RECURSIVE ISqrt(_, _, _)
\* the integer square root of v, searched between lo and hi (lo^2 <= v < hi^2)
ISqrt(v, lo, hi) ==
    IF hi - lo <= 1 THEN lo
    ELSE LET mid == (lo + hi) \div 2
         IN  IF mid * mid <= v THEN ISqrt(v, mid, hi) ELSE ISqrt(v, lo, mid)

RECURSIVE SqrtShift(_, _)
\* the least j >= i with sqrt(v) < 2^(MantBits + j)
SqrtShift(v, i) ==
    IF v < Pow2(MantBits + i) * Pow2(MantBits + i) THEN i ELSE SqrtShift(v, i + 1)

\* f64::sqrt, correctly rounded
FSqrt(x) ==
    IF IsNan(x) THEN Nan
    ELSE IF IsZero(x) THEN x
    ELSE IF x.s = 1 THEN Nan
    ELSE IF IsInf(x) THEN x
    ELSE LET v == x.n * One
             j == SqrtShift(v, 0)
             q == ISqrt(v \div Pow2(2 * j), 0, Pow2(MantBits))
             h == Pow2(2 * j) * (2 * q + 1) * (2 * q + 1)
             m == IF 4 * v > h \/ (4 * v = h /\ q % 2 = 1) THEN q + 1 ELSE q
         IN  Fin(0, m * Pow2(j))

\* acos(i / 16) in units of 10^-4 radian, i = 0..16
AcosTable ==
    <<15708, 15083, 14455, 13822, 13181, 12530, 11864, 11180, 10472,
      9734, 8957, 8128, 7227, 6224, 5054, 3554, 0>>

PiScaled == 31416
AngleScale == 10000

\* f64::acos: NaN outside [-1, 1], else the angle in [0, pi]
FAcos(x) ==
    IF IsNan(x) \/ IsInf(x) \/ x.n > One THEN Nan
    ELSE LET i == (x.n * 16) \div One
             t == AcosTable[i + 1]
             u == IF x.s = 1 /\ x.n # 0 THEN PiScaled - t ELSE t
         IN  RoundQ(0, u * One, AngleScale)

\* f64 == f64: NaN equals nothing, the two zeros are equal
FEq(x, y) ==
    /\ ~IsNan(x)
    /\ ~IsNan(y)
    /\ \/ x = y
       \/ IsZero(x) /\ IsZero(y)

\* an integer as a float (exact when |i| < 2^MantBits)
FromInt(i) == IF i < 0 THEN RoundQ(1, (0 - i) * One, 1) ELSE RoundQ(0, i * One, 1)

---------------------------------------------------------------------------
(* The component type T: "f64" or the signed integer "int".                *)

IntMin == 0 - Pow2(IntBits - 1)
IntMax == Pow2(IntBits - 1) - 1

\* T: Into<f64>
Into(t, c) == IF t = "f64" THEN c ELSE FromInt(c)

\* T: From<f64>, which only f64 itself implements
HasFromF64(t) == t = "f64"

\* T: Mul<f64, Output = T>, which only f64 implements
HasMulF64(t) == t = "f64"

Ok(v) == [ok |-> TRUE, v |-> v]
Fail == [ok |-> FALSE, v |-> 0]

Wrap(v) == ((v - IntMin) % Pow2(IntBits)) + IntMin

\* an integer result: out of range, it panics when the build checks overflow
\* (chk) and wraps otherwise
IntResult(chk, v) ==
    IF IntMin <= v /\ v <= IntMax THEN Ok(v)
    ELSE IF chk THEN Fail
    ELSE Ok(Wrap(v))

Abs(v) == IF v < 0 THEN 0 - v ELSE v

\* integer division truncates toward zero
TruncDiv(x, y) ==
    IF (x < 0) = (y < 0) THEN Abs(x) \div Abs(y) ELSE 0 - (Abs(x) \div Abs(y))

\* T + T
TAdd(t, chk, x, y) == IF t = "f64" THEN Ok(FAdd(x, y)) ELSE IntResult(chk, x + y)

\* T - T
TSub(t, chk, x, y) == IF t = "f64" THEN Ok(FSub(x, y)) ELSE IntResult(chk, x - y)

\* T * T
TMul(t, chk, x, y) == IF t = "f64" THEN Ok(FMul(x, y)) ELSE IntResult(chk, x * y)

\* T / T: integer division by zero and MIN / -1 panic in every build
TDiv(t, chk, x, y) ==
    IF t = "f64" THEN Ok(FDiv(x, y))
    ELSE IF y = 0 THEN Fail
    ELSE IF x = IntMin /\ y = 0 - 1 THEN Fail
    ELSE Ok(TruncDiv(x, y))

---------------------------------------------------------------------------
(* Results of an operation: a vector, an f64 scalar, or a panic.           *)

Vec(v) == [tag |-> "vec", v |-> v]
Num(x) == [tag |-> "num", v |-> x]
Panic == [tag |-> "panic", v |-> <<>>]
NoRes == [tag |-> "none", v |-> <<>>]

\* a vector built from component results, or a panic when one of them panicked
Build(cs) ==
    IF \A i \in 1..Len(cs) : cs[i].ok THEN Vec([i \in 1..Len(cs) |-> cs[i].v])
    ELSE Panic

---------------------------------------------------------------------------
(* Vector2<T>                                                              *)

Vector2_length(t, u) ==
    FSqrt(FAdd(FSquare(Into(t, u[1])), FSquare(Into(t, u[2]))))

Vector2_dot(t, u, v) ==
    FAdd(FMul(Into(t, u[1]), Into(t, v[1])), FMul(Into(t, u[2]), Into(t, v[2])))

\* a slip in cross: the two products are subtracted the other way round
Vector2_cross_Negated(t, u, v) ==
    FSub(FMul(Into(t, u[2]), Into(t, v[1])), FMul(Into(t, u[1]), Into(t, v[2])))

\* a slip in cross: the second product is left out
Vector2_cross_DropsSecond(t, u, v) ==
    FMul(Into(t, u[1]), Into(t, v[2]))

Vector2_cross(t, u, v) ==
    FSub(FMul(Into(t, u[1]), Into(t, v[2])), FMul(Into(t, u[2]), Into(t, v[1])))

Vector2_normalize(t, u) ==
    LET len == Vector2_length(t, u)
    IN  IF FEq(len, Fin(0, 0)) THEN u
        ELSE <<FDiv(Into(t, u[1]), len), FDiv(Into(t, u[2]), len)>>

\* a change to project_onto: a zero divisor returns self, as normalize does
Vector2_project_onto_Guarded(t, u, v) ==
    LET scalar == FDiv(Vector2_dot(t, u, v), Vector2_dot(t, v, v))
    IN  IF FEq(Vector2_dot(t, v, v), Fin(0, 0)) THEN u
        ELSE <<FMul(scalar, Into(t, v[1])), FMul(scalar, Into(t, v[2]))>>

Vector2_project_onto(t, u, v) ==
    LET scalar == FDiv(Vector2_dot(t, u, v), Vector2_dot(t, v, v))
    IN  <<FMul(scalar, Into(t, v[1])), FMul(scalar, Into(t, v[2]))>>

\* a slip in reject_from: the projection minus self
Vector2_reject_from_Reversed(t, u, v) ==
    LET projection == Vector2_project_onto(t, u, v)
    IN  <<FSub(projection[1], u[1]), FSub(projection[2], u[2])>>

Vector2_reject_from(t, u, v) ==
    LET projection == Vector2_project_onto(t, u, v)
    IN  <<FSub(u[1], projection[1]), FSub(u[2], projection[2])>>

Vector2_lerp(t, u, v, s) ==
    <<FAdd(u[1], FMul(FSub(v[1], u[1]), s)),
      FAdd(u[2], FMul(FSub(v[2], u[2]), s))>>

Vector2_angle_between(t, u, v) ==
    LET dot_product == Vector2_dot(t, u, v)
        magnitude_product == FMul(Vector2_length(t, u), Vector2_length(t, v))
    IN  FAcos(FDiv(dot_product, magnitude_product))

\* a slip in swizzle: the two indices are used in the wrong order
Vector2_swizzle_Swapped(u, x, y) ==
    IF x >= 2 \/ y >= 2 THEN Panic
    ELSE Vec(<<u[y + 1], u[x + 1]>>)

\* components[x], components[y]: indexing past the array panics
Vector2_swizzle(u, x, y) ==
    IF x >= 2 \/ y >= 2 THEN Panic
    ELSE Vec(<<u[x + 1], u[y + 1]>>)

\* a slip in add: y is taken from self alone
Vector2_add_DropsRhsY(t, chk, u, v) ==
    Build(<<TAdd(t, chk, u[1], v[1]), Ok(u[2])>>)

Vector2_add(t, chk, u, v) ==
    Build(<<TAdd(t, chk, u[1], v[1]), TAdd(t, chk, u[2], v[2])>>)

Vector2_sub(t, chk, u, v) ==
    Build(<<TSub(t, chk, u[1], v[1]), TSub(t, chk, u[2], v[2])>>)

Vector2_mul(t, chk, u, v) ==
    Build(<<TMul(t, chk, u[1], v[1]), TMul(t, chk, u[2], v[2])>>)

\* a slip in div: the y component is passed through undivided
Vector2_div_SkipsY(t, chk, u, v) ==
    Build(<<TDiv(t, chk, u[1], v[1]), Ok(u[2])>>)

Vector2_div(t, chk, u, v) ==
    Build(<<TDiv(t, chk, u[1], v[1]), TDiv(t, chk, u[2], v[2])>>)

---------------------------------------------------------------------------
(* Vector3<T>                                                              *)

Vector3_length(t, u) ==
    FSqrt(FAdd(FAdd(FSquare(Into(t, u[1])), FSquare(Into(t, u[2]))),
               FSquare(Into(t, u[3]))))

Vector3_dot(t, u, v) ==
    FAdd(FAdd(FMul(Into(t, u[1]), Into(t, v[1])), FMul(Into(t, u[2]), Into(t, v[2]))),
         FMul(Into(t, u[3]), Into(t, v[3])))

\* a slip in cross: the y component adds its two products
Vector3_cross_SignSlip(t, u, v) ==
    <<FSub(FMul(Into(t, u[2]), Into(t, v[3])), FMul(Into(t, u[3]), Into(t, v[2]))),
      FAdd(FMul(Into(t, u[3]), Into(t, v[1])), FMul(Into(t, u[1]), Into(t, v[3]))),
      FSub(FMul(Into(t, u[1]), Into(t, v[2])), FMul(Into(t, u[2]), Into(t, v[1])))>>

Vector3_cross(t, u, v) ==
    <<FSub(FMul(Into(t, u[2]), Into(t, v[3])), FMul(Into(t, u[3]), Into(t, v[2]))),
      FSub(FMul(Into(t, u[3]), Into(t, v[1])), FMul(Into(t, u[1]), Into(t, v[3]))),
      FSub(FMul(Into(t, u[1]), Into(t, v[2])), FMul(Into(t, u[2]), Into(t, v[1])))>>

\* a slip in normalize: no test of the length, it always divides
Vector3_normalize_NoGuard(t, u) ==
    LET len == Vector3_length(t, u)
    IN  <<FDiv(Into(t, u[1]), len), FDiv(Into(t, u[2]), len),
          FDiv(Into(t, u[3]), len)>>

Vector3_normalize(t, u) ==
    LET len == Vector3_length(t, u)
    IN  IF FEq(len, Fin(0, 0)) THEN u
        ELSE <<FDiv(Into(t, u[1]), len), FDiv(Into(t, u[2]), len),
               FDiv(Into(t, u[3]), len)>>

Vector3_project_onto(t, u, v) ==
    LET scalar ==
            FDiv(FAdd(FAdd(FMul(Into(t, u[1]), Into(t, v[1])),
                           FMul(Into(t, u[2]), Into(t, v[2]))),
                      FMul(Into(t, u[3]), Into(t, v[3]))),
                 FAdd(FAdd(FMul(Into(t, v[1]), Into(t, v[1])),
                           FMul(Into(t, v[2]), Into(t, v[2]))),
                      FMul(Into(t, v[3]), Into(t, v[3]))))
    IN  <<FMul(scalar, Into(t, v[1])), FMul(scalar, Into(t, v[2])),
          FMul(scalar, Into(t, v[3]))>>

\* a slip in reject_from: z is passed through without the projection taken off
Vector3_reject_from_KeepsZ(t, u, v) ==
    LET projection == Vector3_project_onto(t, u, v)
    IN  <<FSub(u[1], projection[1]), FSub(u[2], projection[2]), u[3]>>

Vector3_reject_from(t, u, v) ==
    LET projection == Vector3_project_onto(t, u, v)
    IN  <<FSub(u[1], projection[1]), FSub(u[2], projection[2]),
          FSub(u[3], projection[3])>>

Vector3_lerp(t, u, v, s) ==
    <<FAdd(u[1], FMul(FSub(v[1], u[1]), s)),
      FAdd(u[2], FMul(FSub(v[2], u[2]), s)),
      FAdd(u[3], FMul(FSub(v[3], u[3]), s))>>

Vector3_angle_between(t, u, v) ==
    LET dot_product == Vector3_dot(t, u, v)
        magnitude_product == FMul(Vector3_length(t, u), Vector3_length(t, v))
    IN  FAcos(FDiv(dot_product, magnitude_product))

\* a slip in swizzle: the indices are used one place on, (y, z, x)
Vector3_swizzle_Rotated(u, x, y, z) ==
    IF x >= 3 \/ y >= 3 \/ z >= 3 THEN Panic
    ELSE Vec(<<u[y + 1], u[z + 1], u[x + 1]>>)

Vector3_swizzle(u, x, y, z) ==
    IF x >= 3 \/ y >= 3 \/ z >= 3 THEN Panic
    ELSE Vec(<<u[x + 1], u[y + 1], u[z + 1]>>)

Vector3_add(t, chk, u, v) ==
    Build(<<TAdd(t, chk, u[1], v[1]), TAdd(t, chk, u[2], v[2]),
            TAdd(t, chk, u[3], v[3])>>)

Vector3_sub(t, chk, u, v) ==
    Build(<<TSub(t, chk, u[1], v[1]), TSub(t, chk, u[2], v[2]),
            TSub(t, chk, u[3], v[3])>>)

Vector3_mul(t, chk, u, v) ==
    Build(<<TMul(t, chk, u[1], v[1]), TMul(t, chk, u[2], v[2]),
            TMul(t, chk, u[3], v[3])>>)

Vector3_div(t, chk, u, v) ==
    Build(<<TDiv(t, chk, u[1], v[1]), TDiv(t, chk, u[2], v[2]),
            TDiv(t, chk, u[3], v[3])>>)

---------------------------------------------------------------------------
(* Vector4<T>                                                              *)

Vector4_length(t, u) ==
    FSqrt(FAdd(FAdd(FAdd(FSquare(Into(t, u[1])), FSquare(Into(t, u[2]))),
                    FSquare(Into(t, u[3]))),
               FSquare(Into(t, u[4]))))

Vector4_dot(t, u, v) ==
    FAdd(FAdd(FAdd(FMul(Into(t, u[1]), Into(t, v[1])),
                   FMul(Into(t, u[2]), Into(t, v[2]))),
              FMul(Into(t, u[3]), Into(t, v[3]))),
         FMul(Into(t, u[4]), Into(t, v[4])))

\* a slip in cross: the result keeps self.w instead of 0.0
Vector4_cross_KeepW(t, u, v) ==
    <<FSub(FMul(Into(t, u[2]), Into(t, v[3])), FMul(Into(t, u[3]), Into(t, v[2]))),
      FSub(FMul(Into(t, u[3]), Into(t, v[1])), FMul(Into(t, u[1]), Into(t, v[3]))),
      FSub(FMul(Into(t, u[1]), Into(t, v[2])), FMul(Into(t, u[2]), Into(t, v[1]))),
      Into(t, u[4])>>

\* a slip in cross: the z component is x1*y2 - y1*z2
Vector4_cross_IndexSlip(t, u, v) ==
    <<FSub(FMul(Into(t, u[2]), Into(t, v[3])), FMul(Into(t, u[3]), Into(t, v[2]))),
      FSub(FMul(Into(t, u[3]), Into(t, v[1])), FMul(Into(t, u[1]), Into(t, v[3]))),
      FSub(FMul(Into(t, u[1]), Into(t, v[2])), FMul(Into(t, u[2]), Into(t, v[3]))),
      Fin(0, 0)>>

\* returns a Vector4<f64> whatever T is
Vector4_cross(t, u, v) ==
    <<FSub(FMul(Into(t, u[2]), Into(t, v[3])), FMul(Into(t, u[3]), Into(t, v[2]))),
      FSub(FMul(Into(t, u[3]), Into(t, v[1])), FMul(Into(t, u[1]), Into(t, v[3]))),
      FSub(FMul(Into(t, u[1]), Into(t, v[2])), FMul(Into(t, u[2]), Into(t, v[1]))),
      Fin(0, 0)>>

\* a slip in normalize: w is passed through undivided
Vector4_normalize_SkipsW(t, u) ==
    LET len == Vector4_length(t, u)
    IN  IF FEq(len, Fin(0, 0)) THEN u
        ELSE <<FDiv(Into(t, u[1]), len), FDiv(Into(t, u[2]), len),
               FDiv(Into(t, u[3]), len), u[4]>>

Vector4_normalize(t, u) ==
    LET len == Vector4_length(t, u)
    IN  IF FEq(len, Fin(0, 0)) THEN u
        ELSE <<FDiv(Into(t, u[1]), len), FDiv(Into(t, u[2]), len),
               FDiv(Into(t, u[3]), len), FDiv(Into(t, u[4]), len)>>

Vector4_project_onto(t, u, v) ==
    LET scalar ==
            FDiv(FAdd(FAdd(FAdd(FMul(Into(t, u[1]), Into(t, v[1])),
                                FMul(Into(t, u[2]), Into(t, v[2]))),
                           FMul(Into(t, u[3]), Into(t, v[3]))),
                      FMul(Into(t, u[4]), Into(t, v[4]))),
                 FAdd(FAdd(FAdd(FMul(Into(t, v[1]), Into(t, v[1])),
                                FMul(Into(t, v[2]), Into(t, v[2]))),
                           FMul(Into(t, v[3]), Into(t, v[3]))),
                      FMul(Into(t, v[4]), Into(t, v[4]))))
    IN  <<FMul(scalar, Into(t, v[1])), FMul(scalar, Into(t, v[2])),
          FMul(scalar, Into(t, v[3])), FMul(scalar, Into(t, v[4]))>>

Vector4_reject_from(t, u, v) ==
    LET projection == Vector4_project_onto(t, u, v)
    IN  <<FSub(u[1], projection[1]), FSub(u[2], projection[2]),
          FSub(u[3], projection[3]), FSub(u[4], projection[4])>>

Vector4_lerp(t, u, v, s) ==
    <<FAdd(u[1], FMul(FSub(v[1], u[1]), s)),
      FAdd(u[2], FMul(FSub(v[2], u[2]), s)),
      FAdd(u[3], FMul(FSub(v[3], u[3]), s)),
      FAdd(u[4], FMul(FSub(v[4], u[4]), s))>>

\* a change to angle_between: a zero magnitude product returns the angle 0.0
Vector4_angle_between_Guarded(t, u, v) ==
    LET dot_product == Vector4_dot(t, u, v)
        magnitude_product == FMul(Vector4_length(t, u), Vector4_length(t, v))
    IN  IF FEq(magnitude_product, Fin(0, 0)) THEN Fin(0, 0)
        ELSE FAcos(FDiv(dot_product, magnitude_product))

Vector4_angle_between(t, u, v) ==
    LET dot_product == Vector4_dot(t, u, v)
        magnitude_product == FMul(Vector4_length(t, u), Vector4_length(t, v))
    IN  FAcos(FDiv(dot_product, magnitude_product))

\* a change to swizzle: an index past the array wraps around instead of panicking
Vector4_swizzle_Wrapping(u, x, y, z, w) ==
    Vec(<<u[(x % 4) + 1], u[(y % 4) + 1], u[(z % 4) + 1], u[(w % 4) + 1]>>)

Vector4_swizzle(u, x, y, z, w) ==
    IF x >= 4 \/ y >= 4 \/ z >= 4 \/ w >= 4 THEN Panic
    ELSE Vec(<<u[x + 1], u[y + 1], u[z + 1], u[w + 1]>>)

Vector4_add(t, chk, u, v) ==
    Build(<<TAdd(t, chk, u[1], v[1]), TAdd(t, chk, u[2], v[2]),
            TAdd(t, chk, u[3], v[3]), TAdd(t, chk, u[4], v[4])>>)

Vector4_sub(t, chk, u, v) ==
    Build(<<TSub(t, chk, u[1], v[1]), TSub(t, chk, u[2], v[2]),
            TSub(t, chk, u[3], v[3]), TSub(t, chk, u[4], v[4])>>)

Vector4_mul(t, chk, u, v) ==
    Build(<<TMul(t, chk, u[1], v[1]), TMul(t, chk, u[2], v[2]),
            TMul(t, chk, u[3], v[3]), TMul(t, chk, u[4], v[4])>>)

Vector4_div(t, chk, u, v) ==
    Build(<<TDiv(t, chk, u[1], v[1]), TDiv(t, chk, u[2], v[2]),
            TDiv(t, chk, u[3], v[3]), TDiv(t, chk, u[4], v[4])>>)

---------------------------------------------------------------------------
(* The operations on the program's two vectors a and b of dimension dim    *)
(* and component type ty.  An operation leaves a and b as they are and     *)
(* records what it was given (arg) and what it returned (res).             *)

\* a change to the operations: a vector result is written back into self
Frame_InPlace ==
    /\ UNCHANGED <<ty, dim, b>>
    /\ a' = IF res'.tag = "vec" THEN res'.v ELSE a

Frame == UNCHANGED <<ty, dim, a, b>>

Length ==
    /\ op' = "length"
    /\ arg' = <<>>
    /\ res' = Num(CASE dim = 2 -> Vector2_length(ty, a)
                    [] dim = 3 -> Vector3_length(ty, a)
                    [] dim = 4 -> Vector4_length(ty, a))
    /\ Frame

Dot ==
    /\ op' = "dot"
    /\ arg' = <<>>
    /\ res' = Num(CASE dim = 2 -> Vector2_dot(ty, a, b)
                    [] dim = 3 -> Vector3_dot(ty, a, b)
                    [] dim = 4 -> Vector4_dot(ty, a, b))
    /\ Frame

\* Vector3::cross converts back to T (T: From<f64>); the others return f64
Cross ==
    /\ dim = 3 => HasFromF64(ty)
    /\ op' = "cross"
    /\ arg' = <<>>
    /\ res' = CASE dim = 2 -> Num(Vector2_cross(ty, a, b))
                [] dim = 3 -> Vec(Vector3_cross(ty, a, b))
                [] dim = 4 -> Vec(Vector4_cross(ty, a, b))
    /\ Frame

Normalize ==
    /\ HasFromF64(ty)
    /\ op' = "normalize"
    /\ arg' = <<>>
    /\ res' = Vec(CASE dim = 2 -> Vector2_normalize(ty, a)
                    [] dim = 3 -> Vector3_normalize(ty, a)
                    [] dim = 4 -> Vector4_normalize(ty, a))
    /\ Frame

ProjectOnto ==
    /\ HasFromF64(ty)
    /\ op' = "project_onto"
    /\ arg' = <<>>
    /\ res' = Vec(CASE dim = 2 -> Vector2_project_onto(ty, a, b)
                    [] dim = 3 -> Vector3_project_onto(ty, a, b)
                    [] dim = 4 -> Vector4_project_onto(ty, a, b))
    /\ Frame

RejectFrom ==
    /\ HasFromF64(ty)
    /\ op' = "reject_from"
    /\ arg' = <<>>
    /\ res' = Vec(CASE dim = 2 -> Vector2_reject_from(ty, a, b)
                    [] dim = 3 -> Vector3_reject_from(ty, a, b)
                    [] dim = 4 -> Vector4_reject_from(ty, a, b))
    /\ Frame

AngleBetween ==
    /\ op' = "angle_between"
    /\ arg' = <<>>
    /\ res' = Num(CASE dim = 2 -> Vector2_angle_between(ty, a, b)
                    [] dim = 3 -> Vector3_angle_between(ty, a, b)
                    [] dim = 4 -> Vector4_angle_between(ty, a, b))
    /\ Frame


\* the f64 factors passed to lerp
Half == Fin(0, One \div 2)
LerpTs == {Fin(0, 0), Half, Fin(0, One), Fin(0, 2 * One)}

Lerp ==
    /\ HasFromF64(ty) /\ HasMulF64(ty)
    /\ \E t \in LerpTs :
          /\ arg' = <<t>>
          /\ res' = Vec(CASE dim = 2 -> Vector2_lerp(ty, a, b, t)
                          [] dim = 3 -> Vector3_lerp(ty, a, b, t)
                          [] dim = 4 -> Vector4_lerp(ty, a, b, t))
    /\ op' = "lerp"
    /\ Frame

Swizzle ==
    /\ \E idx \in [1..dim -> 0..MaxIdx] :
          /\ arg' = idx
          /\ res' = CASE dim = 2 -> Vector2_swizzle(a, idx[1], idx[2])
                      [] dim = 3 -> Vector3_swizzle(a, idx[1], idx[2], idx[3])
                      [] dim = 4 -> Vector4_swizzle(a, idx[1], idx[2], idx[3], idx[4])
    /\ op' = "swizzle"
    /\ Frame

\* the builds of the program: with and without integer overflow checks
Builds == IF ty = "f64" THEN {TRUE} ELSE BOOLEAN

Add ==
    /\ \E chk \in Builds :
          /\ arg' = <<chk>>
          /\ res' = CASE dim = 2 -> Vector2_add(ty, chk, a, b)
                      [] dim = 3 -> Vector3_add(ty, chk, a, b)
                      [] dim = 4 -> Vector4_add(ty, chk, a, b)
    /\ op' = "add"
    /\ Frame

Sub ==
    /\ \E chk \in Builds :
          /\ arg' = <<chk>>
          /\ res' = CASE dim = 2 -> Vector2_sub(ty, chk, a, b)
                      [] dim = 3 -> Vector3_sub(ty, chk, a, b)
                      [] dim = 4 -> Vector4_sub(ty, chk, a, b)
    /\ op' = "sub"
    /\ Frame

Mul ==
    /\ \E chk \in Builds :
          /\ arg' = <<chk>>
          /\ res' = CASE dim = 2 -> Vector2_mul(ty, chk, a, b)
                      [] dim = 3 -> Vector3_mul(ty, chk, a, b)
                      [] dim = 4 -> Vector4_mul(ty, chk, a, b)
    /\ op' = "mul"
    /\ Frame

Div ==
    /\ \E chk \in Builds :
          /\ arg' = <<chk>>
          /\ res' = CASE dim = 2 -> Vector2_div(ty, chk, a, b)
                      [] dim = 3 -> Vector3_div(ty, chk, a, b)
                      [] dim = 4 -> Vector4_div(ty, chk, a, b)
    /\ op' = "div"
    /\ Frame

---------------------------------------------------------------------------
(* Inputs.  Vector::new accepts any components, so every vector over the   *)
(* value sets below is a vector the program can hold.                      *)

Zero == Fin(0, 0)
NegZero == Fin(1, 0)
OneF == Fin(0, One)
Tiny == Fin(0, 1)                                  \* Tiny * Tiny rounds to 0
Mid == FromInt(Pow2(MantBits \div 2) + 1)          \* Mid * Mid is rounded
Big == Fin(0, MaxFin)                              \* Big * Big overflows
PInf == Inf(0)
NInf == Inf(1)

SmallInts == (0 - MaxInt)..MaxInt
SmallF64 == {FromInt(i) : i \in SmallInts}

Vecs(d, S) == [1..d -> S]

Fresh == op = "none" /\ arg = <<>> /\ res = NoRes

\* the vectors (1, 2, .., d)
Iota(t, d) == [i \in 1..d |-> IF t = "f64" THEN FromInt(i) ELSE i]

\* a few vectors of each type and dimension
Samples(t, d) ==
    IF t = "f64"
    THEN {Iota(t, d), [i \in 1..d |-> IF i = 1 THEN Zero ELSE IF i = 2 THEN Big ELSE Nan]}
    ELSE {Iota(t, d), [i \in 1..d |-> IF i = 1 THEN IntMin ELSE 0]}

Init ==
    /\ ty \in {"f64", "int"}
    /\ dim \in {2, 3, 4}
    /\ a \in Samples(ty, dim)
    /\ b \in Samples(ty, dim)
    /\ Fresh

Next ==
    \/ Length
    \/ Dot
    \/ Cross
    \/ Normalize
    \/ ProjectOnto
    \/ RejectFrom
    \/ Lerp
    \/ AngleBetween
    \/ Swizzle
    \/ Add
    \/ Sub
    \/ Mul
    \/ Div

Spec == Init /\ [][Next]_vars


---------------------------------------------------------------------------
(* Cross and dot products.                                                 *)

CrossF64(d) ==
    CASE d = 2 -> Vecs(2, SmallF64 \cup {Tiny, Mid, Big})
      [] d = 3 -> Vecs(3, SmallF64 \cup {Mid, Big})
      [] d = 4 -> {u \in Vecs(4, {FromInt(0 - 1), Zero, OneF, Big, Nan}) :
                      /\ \A i \in 1..3 : u[i] # Nan
                      /\ u[4] \in {Zero, OneF, Nan}}

CrossInt(d) ==
    CASE d = 2 -> Vecs(2, {IntMin, 0 - 1, 0, 1, IntMax})
      [] d = 3 -> Vecs(3, {0 - 1, 0, 1})
      [] d = 4 -> Vecs(4, {0 - 1, 0, IntMax})

InitCross ==
    /\ ty \in {"f64", "int"}
    /\ dim \in {2, 3, 4}
    /\ a \in (IF ty = "f64" THEN CrossF64(dim) ELSE CrossInt(dim))
    /\ b \in (IF ty = "f64" THEN CrossF64(dim) ELSE CrossInt(dim))
    /\ Fresh

NextCross ==
    \/ Cross
    \/ Dot

SpecCross == InitCross /\ [][NextCross]_vars

\* the largest M with 6 * M^3 <= 2^MantBits: over integer components of
\* magnitude at most M, no product or sum of cross and dot is rounded
ExactInt ==
    CHOOSE m \in 0..Pow2(MantBits) :
        /\ 6 * m * m * m <= Pow2(MantBits)
        /\ 6 * (m + 1) * (m + 1) * (m + 1) > Pow2(MantBits)

IsExactInt(x) == IsFin(x) /\ x.n % One = 0 /\ x.n \div One <= ExactInt

\* |x| <= 1e-6: every nonzero value of the format is at least 2^-FracBits,
\* so only the zeros are within the tolerance
Within1e6(x) == IsZero(x)

CrossedV3 == ty = "f64" /\ dim = 3 /\ op = "cross"

\* C1 as stated: for all Vector3 a and b, a.cross(b).dot(a) and
\* a.cross(b).dot(b) are 0 within 1e-6.
C1_Orthogonal_AllInputs ==
    CrossedV3 =>
        /\ Within1e6(Vector3_dot(ty, res.v, a))
        /\ Within1e6(Vector3_dot(ty, res.v, b))

\* C1, amended: for Vector3<f64> a and b whose components are integers small
\* enough that no product or sum is rounded, a.cross(b).dot(a) and
\* a.cross(b).dot(b) are exactly 0.0.
C1_Orthogonal_ExactInputs ==
    (CrossedV3 /\ \A i \in 1..3 : IsExactInt(a[i]) /\ IsExactInt(b[i])) =>
        /\ FEq(Vector3_dot(ty, res.v, a), Zero)
        /\ FEq(Vector3_dot(ty, res.v, b), Zero)

\* a cross product of exact integer vectors that is not the zero vector
C1_Witness ==
    /\ CrossedV3
    /\ \A i \in 1..3 : IsExactInt(a[i]) /\ IsExactInt(b[i])
    /\ \E i \in 1..3 : ~IsZero(res.v[i])

CrossedV4 == dim = 4 /\ op = "cross"

\* the w components a Vector4 may be given in place of its own
OtherWs == IF ty = "f64" THEN {Zero, NegZero, OneF, Big, NInf, Nan} ELSE {IntMin, 0, 1, IntMax}

\* C2: Vector4::cross does not depend on the w components of its inputs and
\* its result's w is exactly 0.0: with any other w in a and in b the result is
\* the same in every component.
C2_CrossIgnoresW ==
    CrossedV4 =>
        /\ res.v[4] = Zero
        /\ \A wa \in OtherWs, wb \in OtherWs :
              Vec(Vector4_cross(ty, [a EXCEPT ![4] = wa], [b EXCEPT ![4] = wb])) = res

\* a Vector4 cross product of vectors with nonzero w and a nonzero result
C2_Witness ==
    /\ CrossedV4
    /\ a[4] # b[4]
    /\ (IF ty = "f64" THEN a[4] = OneF ELSE a[4] = IntMax)
    /\ \E i \in 1..3 : ~IsZero(res.v[i])

\* C3: the x, y, z of Vector4::cross are those of Vector3::cross (at f64) on
\* the x, y, z parts of the operands.
C3_CrossAgreesWithVector3 ==
    CrossedV4 =>
        <<res.v[1], res.v[2], res.v[3]>> =
            Vector3_cross("f64", <<Into(ty, a[1]), Into(ty, a[2]), Into(ty, a[3])>>,
                                 <<Into(ty, b[1]), Into(ty, b[2]), Into(ty, b[3])>>)

\* a Vector4 cross product whose x, y and z are all nonzero
C3_Witness ==
    /\ CrossedV4
    /\ \A i \in 1..3 : IsFin(res.v[i]) /\ ~IsZero(res.v[i])


---------------------------------------------------------------------------
(* Zero-length and other degenerate operands of the metric operations.     *)

\* vectors whose length() is 0.0: the squares of their components are 0
ZeroLen(d) == Vecs(d, {Zero, NegZero, Tiny})

General(d) ==
    CASE d = 2 -> Vecs(2, {Zero, Tiny, OneF, Big, PInf, Nan})
      [] d = 3 -> Vecs(3, {Zero, OneF, Big, Nan})
      [] d = 4 -> Vecs(4, {Zero, OneF, Nan})

InitZero ==
    /\ ty \in {"f64", "int"}
    /\ dim \in {2, 3, 4}
    /\ a \in (IF ty = "f64" THEN ZeroLen(dim) \cup General(dim) ELSE Vecs(dim, {0 - 1, 0, 1}))
    /\ b \in (IF ty = "f64" THEN ZeroLen(dim) \cup General(dim) ELSE Vecs(dim, {0 - 1, 0, 1}))
    /\ Fresh

NextZero ==
    \/ Length
    \/ Normalize
    \/ ProjectOnto
    \/ RejectFrom
    \/ AngleBetween

SpecZero == InitZero /\ [][NextZero]_vars

\* u.length() of the vector u of the program's type
LengthOf(u) ==
    CASE dim = 2 -> Vector2_length(ty, u)
      [] dim = 3 -> Vector3_length(ty, u)
      [] dim = 4 -> Vector4_length(ty, u)

\* u.dot(v)
DotOf(u, v) ==
    CASE dim = 2 -> Vector2_dot(ty, u, v)
      [] dim = 3 -> Vector3_dot(ty, u, v)
      [] dim = 4 -> Vector4_dot(ty, u, v)

HasZeroLength(u) == FEq(LengthOf(u), Zero)

IsZeroVector(u) == \A i \in 1..dim : IsZero(Into(ty, u[i]))

\* C4: normalize of a vector whose length() is 0 returns a vector equal to the
\* input in every component, for Vector2, Vector3 and Vector4; it returns a
\* vector and none of its components is NaN.
C4_NormalizeZeroLength ==
    (op = "normalize" /\ HasZeroLength(a)) =>
        /\ res = Vec(a)
        /\ \A i \in 1..dim : ~IsNan(res.v[i])

\* normalize of a vector of length 0 that is not the zero vector
C4_Witness ==
    /\ op = "normalize"
    /\ HasZeroLength(a)
    /\ \E i \in 1..dim : a[i] = Tiny
    /\ res = Vec(a)

\* C5: project_onto a zero vector is not guarded: the divisor other.dot(other)
\* is 0, the dividend is 0 whenever self is finite, and every component of the
\* returned vector is NaN.
C5_ProjectOntoZero ==
    (op = "project_onto" /\ IsZeroVector(b)) =>
        /\ IsZero(DotOf(b, b))
        /\ (\A i \in 1..dim : IsFin(a[i])) => IsZero(DotOf(a, b))
        /\ res.tag = "vec"
        /\ \A i \in 1..dim : IsNan(res.v[i])

\* a finite nonzero vector projected onto the zero vector
C5_Witness ==
    /\ op = "project_onto"
    /\ IsZeroVector(b)
    /\ \A i \in 1..dim : IsFin(a[i])
    /\ \E i \in 1..dim : ~IsZero(a[i])
    /\ \A i \in 1..dim : IsNan(res.v[i])

\* C6: angle_between returns NaN whenever self or other has zero length, for
\* Vector2, Vector3 and Vector4.
C6_AngleBetweenZeroLength ==
    (op = "angle_between" /\ (HasZeroLength(a) \/ HasZeroLength(b))) =>
        res = Num(Nan)

\* the angle between a vector of nonzero length and a vector of length zero
C6_Witness ==
    /\ op = "angle_between"
    /\ ~IsNan(LengthOf(a)) /\ ~HasZeroLength(a)
    /\ HasZeroLength(b)
    /\ res = Num(Nan)


---------------------------------------------------------------------------
(* Swizzling.                                                              *)

SwizzleInputs(t, d) ==
    IF t = "f64"
    THEN {Iota(t, d), [i \in 1..d |-> IF i = 1 THEN Nan ELSE Zero],
          [i \in 1..d |-> IF i = d THEN NegZero ELSE PInf]}
    ELSE {Iota(t, d), [i \in 1..d |-> IF i = 1 THEN IntMin ELSE 0],
          [i \in 1..d |-> IF i = d THEN 0 - 1 ELSE IntMax]}

InitSwizzle ==
    /\ ty \in {"f64", "int"}
    /\ dim \in {2, 3, 4}
    /\ a \in SwizzleInputs(ty, dim)
    /\ b = Iota(ty, dim)
    /\ Fresh

NextSwizzle == Swizzle

SpecSwizzle == InitSwizzle /\ [][NextSwizzle]_vars

InRange(idx) == \A k \in 1..dim : idx[k] \in 0..(dim - 1)

\* C7: with every index in [0, N-1], swizzle returns the vector whose k-th
\* component is the component of the input at the k-th index; indices may
\* repeat.
C7_SwizzleGathers ==
    (op = "swizzle" /\ InRange(arg)) =>
        /\ res.tag = "vec"
        /\ Len(res.v) = dim
        /\ \A k \in 1..dim : res.v[k] = a[arg[k] + 1]

\* Vector2 swizzle(1, 1) of a vector with x # y yields (y, y)
C7_Witness ==
    /\ op = "swizzle"
    /\ dim = 2
    /\ arg = <<1, 1>>
    /\ a[1] # a[2]
    /\ res = Vec(<<a[2], a[2]>>)

\* C8: if any index is outside [0, N-1], swizzle panics and returns no vector,
\* whatever the other indices are.
C8_SwizzleOutOfRangePanics ==
    (op = "swizzle" /\ ~InRange(arg)) => res = Panic

\* a Vector4 swizzle whose last index alone is out of range
C8_Witness ==
    /\ op = "swizzle"
    /\ dim = 4
    /\ arg = <<3, 2, 1, 4>>
    /\ res = Panic

---------------------------------------------------------------------------
(* The componentwise operators.                                            *)

RingF64(d) ==
    CASE d = 2 -> Vecs(2, {Zero, NegZero, OneF, Big, PInf, NInf, Nan})
      [] d = 3 -> Vecs(3, {OneF, Big, PInf, NInf})
      [] d = 4 -> Vecs(4, {Zero, PInf, NInf})

RingInt(d) ==
    CASE d = 2 -> Vecs(2, {IntMin, 0 - 1, 0, 1, IntMax})
      [] d = 3 -> Vecs(3, {IntMin, 0 - 1, 0, IntMax})
      [] d = 4 -> Vecs(4, {0 - 1, 1, IntMax})

InitRing ==
    /\ ty \in {"f64", "int"}
    /\ dim \in {2, 3, 4}
    /\ a \in (IF ty = "f64" THEN RingF64(dim) ELSE RingInt(dim))
    /\ b \in (IF ty = "f64" THEN RingF64(dim) ELSE RingInt(dim))
    /\ Fresh

NextRing ==
    \/ Add
    \/ Sub
    \/ Mul
    \/ Div

SpecRing == InitRing /\ [][NextRing]_vars

\* u + v in the build chk
AddOf(chk, u, v) ==
    CASE dim = 2 -> Vector2_add(ty, chk, u, v)
      [] dim = 3 -> Vector3_add(ty, chk, u, v)
      [] dim = 4 -> Vector4_add(ty, chk, u, v)

\* T == T
TEq(x, y) == IF ty = "f64" THEN FEq(x, y) ELSE x = y

\* r1 == r2 for two vectors (derived PartialEq): every component is equal
VecEq(u, v) == \A i \in 1..dim : TEq(u[i], v[i])

HasNan(u) == ty = "f64" /\ \E i \in 1..dim : IsNan(u[i])

\* C9 as stated: for all a and b, a + b == b + a.
C9_AddCommutes_AllInputs ==
    op = "add" =>
        LET other == AddOf(arg[1], b, a)
        IN  /\ other.tag = res.tag
            /\ res.tag = "vec" => VecEq(res.v, other.v)

\* C9, amended: a + b and b + a hold the same components (or both panic), and
\* a + b == b + a holds unless a component of the sum is NaN, which equals
\* nothing.
C9_AddCommutes_NoNan ==
    op = "add" =>
        LET other == AddOf(arg[1], b, a)
        IN  /\ other = res
            /\ res.tag = "vec" => (VecEq(res.v, other.v) <=> ~HasNan(res.v))

\* a sum of two different vectors without NaN, equal to the sum in the other order
C9_Witness ==
    /\ op = "add"
    /\ res.tag = "vec"
    /\ a # b
    /\ ~HasNan(res.v)
    /\ VecEq(res.v, AddOf(arg[1], b, a).v)
    /\ \E i \in 1..dim : res.v[i] # a[i]

---------------------------------------------------------------------------
(* Linear interpolation.                                                   *)

NegBig == Fin(1, MaxFin)

LerpInputs(d) ==
    CASE d = 2 -> Vecs(2, {Zero, Tiny, OneF, Mid, Big, NegBig})
      [] d = 3 -> Vecs(3, {Zero, OneF, Big, NegBig})
      [] d = 4 -> Vecs(4, {OneF, Big, NegBig})

InitLerp ==
    /\ ty = "f64"
    /\ dim \in {2, 3, 4}
    /\ a \in LerpInputs(dim)
    /\ b \in LerpInputs(dim)
    /\ Fresh

NextLerp == Lerp

SpecLerp == InitLerp /\ [][NextLerp]_vars

\* C10: a.lerp(b, 0.0) == a and a.lerp(b, 1.0) == b for any a and b.
C10_LerpEndpoints ==
    op = "lerp" =>
        /\ arg[1] = Zero => VecEq(res.v, a)
        /\ arg[1] = OneF => VecEq(res.v, b)


---------------------------------------------------------------------------
(* Projection and rejection.                                               *)

NegOneF == Fin(1, One)

ProjInputs(d) ==
    CASE d = 2 -> Vecs(2, SmallF64 \cup {Tiny, Mid, Big})
      [] d = 3 -> Vecs(3, {Zero, OneF, NegOneF, Mid, Big})
      [] d = 4 -> Vecs(4, {Zero, OneF, Mid})

InitProj ==
    /\ ty = "f64"
    /\ dim \in {2, 3, 4}
    /\ a \in ProjInputs(dim)
    /\ b \in ProjInputs(dim)
    /\ Fresh

NextProj ==
    \/ ProjectOnto
    \/ RejectFrom

SpecProj == InitProj /\ [][NextProj]_vars

\* u.project_onto(v)
ProjectOf(u, v) ==
    CASE dim = 2 -> Vector2_project_onto(ty, u, v)
      [] dim = 3 -> Vector3_project_onto(ty, u, v)
      [] dim = 4 -> Vector4_project_onto(ty, u, v)

\* u.reject_from(v)
RejectOf(u, v) ==
    CASE dim = 2 -> Vector2_reject_from(ty, u, v)
      [] dim = 3 -> Vector3_reject_from(ty, u, v)
      [] dim = 4 -> Vector4_reject_from(ty, u, v)

AllFinite(u) == \A i \in 1..dim : IsFin(u[i])

\* the distance between neighbouring floats at the magnitude of n units
Ulp(n) == Pow2(ShiftOf(n, 1, 0))

Max3(x, y, z) ==
    IF x >= y /\ x >= z THEN x ELSE IF y >= z THEN y ELSE z

\* a.project_onto(b) + a.reject_from(b), after a.project_onto(b) returned res
RoundTrip == AddOf(TRUE, res.v, RejectOf(a, b)).v

---------------------------------------------------------------------------
(* Every operation, on both component types.                               *)

TotalF64(d) ==
    CASE d = 2 -> Vecs(2, {Zero, OneF, Big, PInf, Nan})
      [] d = 3 -> Vecs(3, {Zero, Big}) \cup {<<Nan, PInf, OneF>>}
      [] d = 4 -> {<<Zero, OneF, Big, Nan>>, <<PInf, NInf, Zero, OneF>>}

TotalInt(d) ==
    CASE d = 2 -> Vecs(2, {IntMin, 0 - 1, 0, 1, IntMax})
      [] d = 3 -> Vecs(3, {IntMin, 0 - 1}) \cup {<<0, 1, IntMax>>}
      [] d = 4 -> {<<IntMin, 0, 1, IntMax>>, <<0 - 1, 1, 1, 1>>}

InitTotal ==
    /\ ty \in {"f64", "int"}
    /\ dim \in {2, 3, 4}
    /\ a \in (IF ty = "f64" THEN TotalF64(dim) ELSE TotalInt(dim))
    /\ b \in (IF ty = "f64" THEN TotalF64(dim) ELSE TotalInt(dim))
    /\ Fresh

SpecTotal == InitTotal /\ [][Next]_vars

Halted == res.tag = "panic"

InRangeInt(v) == IntMin <= v /\ v <= IntMax

\* C12 as stated: the only input that makes an operation halt is an
\* out-of-range swizzle index; +, -, * and / and the metric operations return
\* a value for every component type and all operands.
C12_OnlySwizzleHalts ==
    Halted => (op = "swizzle" /\ ~InRange(arg))

\* C12: an operation halts exactly in these cases: swizzle with an index
\* outside 0..N-1; integer / with a divisor component 0 or with MIN / -1 in a
\* component; integer +, - or * whose exact result leaves the integer range
\* in a component, in a build that checks overflow.  With f64 components
\* +, -, * and / always return a vector, and the metric operations return a
\* value for every component type.
C12_HaltsExactlyWhen ==
    Halted <=>
        \/ op = "swizzle" /\ ~InRange(arg)
        \/ /\ ty = "int" /\ op = "div"
           /\ \E i \in 1..dim : b[i] = 0 \/ (a[i] = IntMin /\ b[i] = 0 - 1)
        \/ /\ ty = "int" /\ op = "add" /\ arg[1]
           /\ \E i \in 1..dim : ~InRangeInt(a[i] + b[i])
        \/ /\ ty = "int" /\ op = "sub" /\ arg[1]
           /\ \E i \in 1..dim : ~InRangeInt(a[i] - b[i])
        \/ /\ ty = "int" /\ op = "mul" /\ arg[1]
           /\ \E i \in 1..dim : ~InRangeInt(a[i] * b[i])

\* an integer division that halted on a zero divisor component
C12_Witness ==
    /\ ty = "int"
    /\ op = "div"
    /\ \E i \in 1..dim : b[i] = 0
    /\ \A i \in 1..dim : a[i] # IntMin
    /\ Halted



\* C13: no operation changes its operands: over any sequence of operations
\* every component of a and of b keeps the value it was constructed with (and
\* the vectors keep their type and dimension); the result is a value of its
\* own.
C13_OperandsUnchanged ==
    [][a' = a /\ b' = b /\ ty' = ty /\ dim' = dim]_vars

\* an operation has returned a vector that differs from both operands
C13_Witness ==
    /\ op \in {"normalize", "add", "swizzle", "lerp"}
    /\ res.tag = "vec"
    /\ res.v # a
    /\ res.v # b



---------------------------------------------------------------------------
(* Normalization.                                                          *)

NegMid == Fin(1, Mid.n)

NormInputs(d) ==
    CASE d = 2 -> Vecs(2, SmallF64 \cup {Tiny, Mid, NegMid, Big, PInf, Nan})
      [] d = 3 -> Vecs(3, {Zero, Tiny, NegOneF, Mid, Big, PInf})
      [] d = 4 -> Vecs(4, {Zero, OneF, NegMid, Big})

InitNorm ==
    /\ ty = "f64"
    /\ dim \in {2, 3, 4}
    /\ a \in NormInputs(dim)
    /\ b = Iota(ty, dim)
    /\ Fresh

NextNorm ==
    \/ Normalize
    \/ Length

SpecNorm == InitNorm /\ [][NextNorm]_vars

\* the vector u has exactly one nonzero component, at position i
OnAxis(u, i) == ~IsZero(u[i]) /\ \A j \in 1..dim : j # i => IsZero(u[j])

---------------------------------------------------------------------------
(* The 2D cross product, and antisymmetry of the cross products.           *)

CrossedV2 == dim = 2 /\ op = "cross"

\* the Vector3<f64> (x, y, 0) of a Vector2 (x, y)
Embed(u) == <<Into(ty, u[1]), Into(ty, u[2]), Zero>>

\* C15: Vector2::cross returns a scalar, the determinant x1*y2 - y1*x2 of
\* (self, other) computed in f64, for all inputs; it is the z component that
\* Vector3::cross gives for the embeddings (x1, y1, 0) and (x2, y2, 0).
C15_Cross2IsDeterminant ==
    CrossedV2 =>
        /\ res.tag = "num"
        /\ res.v = FSub(FMul(Into(ty, a[1]), Into(ty, b[2])),
                        FMul(Into(ty, a[2]), Into(ty, b[1])))
        /\ res.v = Vector3_cross("f64", Embed(a), Embed(b))[3]

\* a Vector2 cross product of two different vectors that is finite, nonzero
\* and negative
C15_Witness ==
    /\ CrossedV2
    /\ a # b
    /\ IsFin(res.v) /\ ~IsZero(res.v) /\ res.v.s = 1
    /\ \A i \in 1..2 : ~IsZero(Into(ty, a[i])) /\ ~IsZero(Into(ty, b[i]))

\* the components of u.cross(v): the scalar of Vector2::cross, the x, y, z of
\* Vector3::cross and of Vector4::cross
CrossOf(u, v) ==
    CASE dim = 2 -> <<Vector2_cross(ty, u, v)>>
      [] dim = 3 -> Vector3_cross(ty, u, v)
      [] dim = 4 -> SubSeq(Vector4_cross(ty, u, v), 1, 3)

\* the products of two different components among x, y, z of u are finite
FiniteProducts(u) ==
    \A i, j \in 1..(IF dim = 2 THEN 2 ELSE 3) :
        i # j => IsFin(FMul(Into(ty, u[i]), Into(ty, u[j])))

\* C16 as stated: for all a and b every component of a.cross(b) is the
\* negation of that of b.cross(a), and a.cross(a) is zero.
C16_Antisymmetric_AllInputs ==
    op = "cross" =>
        /\ \A i \in 1..Len(CrossOf(a, b)) :
               FEq(CrossOf(a, b)[i], FNeg(CrossOf(b, a)[i]))
        /\ \A i \in 1..Len(CrossOf(a, a)) : IsZero(CrossOf(a, a)[i])

\* C16: every component of a.cross(b) that is not NaN is the negation of the
\* matching component of b.cross(a), and it is NaN exactly when that one is;
\* a.cross(a) is zero in every component when the products of different
\* components of a are finite, and its components are zero or NaN otherwise.
\* This holds for Vector2::cross, Vector3::cross and the x, y, z of
\* Vector4::cross.
C16_Antisymmetric_Finite ==
    op = "cross" =>
        /\ \A i \in 1..Len(CrossOf(a, b)) :
               LET x == CrossOf(a, b)[i]
                   y == CrossOf(b, a)[i]
               IN  /\ IsNan(x) <=> IsNan(y)
                   /\ ~IsNan(x) => FEq(x, FNeg(y))
        /\ \A i \in 1..Len(CrossOf(a, a)) :
               LET z == CrossOf(a, a)[i]
               IN  /\ IsZero(z) \/ IsNan(z)
                   /\ FiniteProducts(a) => IsZero(z)

\* a cross product of two different vectors with a nonzero component, which
\* is the negation of the component in the other order
C16_Witness ==
    /\ op = "cross"
    /\ a # b
    /\ FiniteProducts(a)
    /\ \E i \in 1..Len(CrossOf(a, b)) :
           /\ IsFin(CrossOf(a, b)[i]) /\ ~IsZero(CrossOf(a, b)[i])
           /\ CrossOf(b, a)[i] = FNeg(CrossOf(a, b)[i])
    /\ \A i \in 1..Len(CrossOf(a, a)) : IsZero(CrossOf(a, a)[i])



\* x is a power of two, at least 1.0
IsPow2(x) == IsFin(x) /\ x.s = 0 /\ \E k \in 0..MantBits : x.n = One * Pow2(k)

\* every operation of the projection of u onto v is exact: the components
\* are small integers and v.dot(v) is a power of two, or v is a unit vector
\* along one axis and u is finite
ExactProjection(u, v) ==
    \/ /\ \A i \in 1..dim : IsExactInt(u[i]) /\ IsExactInt(v[i])
       /\ IsPow2(DotOf(v, v))
    \/ /\ AllFinite(u)
       /\ \E i \in 1..dim : OnAxis(v, i) /\ IsFin(v[i]) /\ v[i].n = One

---------------------------------------------------------------------------
(* Chains of swizzles.                                                     *)

\* u.swizzle(idx)
SwizzleOf(u, idx) ==
    CASE dim = 2 -> Vector2_swizzle(u, idx[1], idx[2])
      [] dim = 3 -> Vector3_swizzle(u, idx[1], idx[2], idx[3])
      [] dim = 4 -> Vector4_swizzle(u, idx[1], idx[2], idx[3], idx[4])

\* the in-range index tuples of the dimension
InRangeTuples == [1..dim -> 0..(dim - 1)]

IdentityIdx == [k \in 1..dim |-> k - 1]

ReversalIdx == [k \in 1..dim |-> dim - k]

\* the tuple u with u_k = s[t_k]
ComposeIdx(s, t) == [k \in 1..dim |-> s[t[k] + 1]]

\* C18: swizzle with the identity indices returns v; for in-range index
\* tuples s and t, v.swizzle(s).swizzle(t) is v.swizzle(u) with u_k = s[t_k];
\* a tuple that is its own inverse (a swap, the reversal) applied twice
\* returns v; and every component of a chain of swizzles is a component of v.
C18_SwizzleComposes ==
    (op = "swizzle" /\ InRange(arg)) =>
        /\ arg = IdentityIdx => res = Vec(a)
        /\ \A t \in InRangeTuples :
               /\ SwizzleOf(res.v, t) = SwizzleOf(a, ComposeIdx(arg, t))
               /\ \A k \in 1..dim :
                      \E i \in 1..dim : SwizzleOf(res.v, t).v[k] = a[i]
        /\ ComposeIdx(arg, arg) = IdentityIdx => SwizzleOf(res.v, arg) = Vec(a)
        /\ \A k \in 1..dim : \E i \in 1..dim : res.v[k] = a[i]

\* the reversal of a Vector4 with four different components, which differs
\* from the vector and whose reversal is the vector again
C18_Witness ==
    /\ op = "swizzle"
    /\ dim = 4
    /\ arg = ReversalIdx
    /\ \A i, j \in 1..dim : i # j => a[i] # a[j]
    /\ res.tag = "vec"
    /\ res.v # a
    /\ SwizzleOf(res.v, arg) = Vec(a)


=============================================================================
